---- MODULE Spec2Model ----
(***************************************************************************)
(* BidFlow AI (src/app.py): a Streamlit script that ingests an uploaded    *)
(* PDF, caches its text in the session, and drives two CrewAI crews (an    *)
(* extraction crew and an audit -> synthesis proposal crew) against a      *)
(* remote language model.                                                  *)
(*                                                                         *)
(* Text is a sequence of one-character strings.  A prompt is a sequence    *)
(* whose elements are either such characters (interpolated text) or a      *)
(* whole literal piece of a template, kept as one string.                  *)
(*                                                                         *)
(* One script run is cut at its blocking remote calls: a user event runs   *)
(* the script from line 1 to its first remote call (or its end), and the   *)
(* answer of a remote call runs it on to the next call (or its end).  The  *)
(* user acts on the page only between runs.                                *)
(***************************************************************************)
EXTENDS Integers, Sequences, FiniteSets, TLC

VARIABLES
    file_state,     \* what my_business_profile.txt is on disk
    uploaded_file,  \* value of the st.file_uploader widget
    view_profile,   \* value of the sidebar checkbox (line 59)
    show_reqs,      \* value of the requirements checkbox (line 80)
    session_state,  \* st.session_state: key -> text
    pc,             \* "idle", or the crew whose kickoff the script is inside
    button,         \* value of st.button (line 104) in the current run
    profile,        \* module global `profile` (line 57)
    tasks,          \* the running crew's task list
    task_outputs,   \* the running crew's committed outputs, in commit order
    inflight,       \* task index -> prompt of a remote call awaiting its answer
    calls,          \* stage ids whose remote call was issued in the last run
    display,        \* what the last run rendered
    rendered,       \* widgets the last run rendered
    error,          \* the exception that ended the last run, if any
    ingest_log,     \* documents whose text extract_text_from_pdf has built
    failed,         \* the remote service's view of the last run: the stage whose
                    \* call it failed, "" if none
    answers,        \* ... and the answers it gave, in order
    ing_doc,        \* IngestSpec: the document under test
    ing_out         \* IngestSpec: what extract_text_from_pdf returned for it

vars == <<file_state, uploaded_file, view_profile, show_reqs, session_state,
          pc, button, profile, tasks, task_outputs, inflight, calls, display,
          rendered, error, ingest_log, failed, answers, ing_doc, ing_out>>

app_vars == <<file_state, uploaded_file, view_profile, show_reqs,
              session_state, pc, button, profile, tasks, task_outputs,
              inflight, calls, display, rendered, error, ingest_log,
              failed, answers>>

(***************************************************************************)
(* Bounds of the model.                                                    *)
(***************************************************************************)
LongPageLen == 3001   \* characters on a long page: two of them pass both limits
MidPageLen == 5500    \* a page between the two truncation limits
MaxPages == 3         \* IngestSpec: pages per document

(***************************************************************************)
(* Values.                                                                 *)
(***************************************************************************)
\* Python's None where a text is expected: no text contains this element.
None == <<"<None>">>

Min(a, b) == IF a <= b THEN a ELSE b

Rep(c, n) == [i \in 1..n |-> c]

\* the slice forgotten: the whole text
SliceUntruncated(s, n) == s

\* s[:n] for n >= 0
Slice(s, n) == SubSeq(s, 1, Min(n, Len(s)))

\* `if content:` is false for None and for the empty string
Truthy(content) == content /= None /\ Len(content) > 0

(***************************************************************************)
(* extract_text_from_pdf                                                   *)
(***************************************************************************)
\* A document is its parse: whether PdfReader accepts it, and what
\* page.extract_text() gives for each page in order.
Document(name, pages) == [name |-> name, parseable |-> TRUE, pages |-> pages]

RECURSIVE ExtractLoopStopAtEmpty(_, _, _)
\* the loop with `break` where the code skips a page without text
ExtractLoopStopAtEmpty(pages, i, text) ==
    IF i > Len(pages) THEN text
    ELSE LET content == pages[i]
         IN  IF Truthy(content)
             THEN ExtractLoopStopAtEmpty(pages, i + 1, text \o content)
             ELSE text

RECURSIVE ExtractLoop(_, _, _)
\* the for loop of lines 23-26, from page i on, with `text` so far
ExtractLoop(pages, i, text) ==
    IF i > Len(pages) THEN text
    ELSE LET content == pages[i]
         IN  ExtractLoop(pages, i + 1,
                         IF Truthy(content) THEN text \o content ELSE text)

extract_text_from_pdf(pdf_file) == ExtractLoop(pdf_file.pages, 1, <<>>)

(***************************************************************************)
(* IngestSpec: extract_text_from_pdf applied to every small document.      *)
(***************************************************************************)
PageContents == {None, <<>>, <<"a">>, <<"b", "c">>}

AllDocs == {Document("d", p) : p \in UNION {[1..n -> PageContents] : n \in 0..MaxPages}}

NotRun == <<"<not run>">>

(***************************************************************************)
(* load_business_profile                                                   *)
(***************************************************************************)
FileStates == {"absent", "present", "directory", "denied", "undecodable"}

FileContents == <<"p", "q">>

DefaultProfile == <<"Standard IT services and software engineering expertise.">>

\* the exception `with open("my_business_profile.txt", "r") as f: f.read()`
\* ends with, "" when it ends normally
OpenAndRead(fs) ==
    CASE fs = "present" -> ""
      [] fs = "absent" -> "FileNotFoundError"
      [] fs = "directory" -> "IsADirectoryError"
      [] fs = "denied" -> "PermissionError"
      [] fs = "undecodable" -> "UnicodeDecodeError"

\* only FileNotFoundError is caught (line 34)
load_business_profile(fs) ==
    LET e == OpenAndRead(fs)
    IN  IF e = "" THEN [exc |-> "", value |-> FileContents]
        ELSE IF e = "FileNotFoundError" THEN [exc |-> "", value |-> DefaultProfile]
        ELSE [exc |-> e, value |-> None]

(***************************************************************************)
(* The documents a user uploads, by name.                                  *)
(***************************************************************************)
NoFile == ""    \* st.file_uploader returns None

UploadNames == {"blank", "short", "mid", "long", "corrupt"}

File(name) ==
    CASE name = "blank" -> Document(name, <<None, <<>>>>)
      [] name = "short" -> Document(name, <<None, <<"c", "d">>>>)
      [] name = "mid" -> Document(name, <<Rep("m", MidPageLen)>>)
      [] name = "long" ->
            Document(name, <<Rep("a", LongPageLen), <<>>, Rep("b", LongPageLen)>>)
      [] name = "corrupt" -> [name |-> name, parseable |-> FALSE, pages |-> <<>>]

(***************************************************************************)
(* st.session_state: a key that is not in the session maps to None.        *)
(***************************************************************************)
EmptySession == [tender_text |-> None, extracted_reqs |-> None]

\* the guard of line 70 dropped: every run ingests again
NeedIngestAlways(ss) == TRUE

\* 'tender_text' not in st.session_state (line 70)
NeedIngest(ss) == ss.tender_text = None

\* 'extracted_reqs' not in st.session_state (line 82)
NeedExtraction(ss) == ss.extracted_reqs = None

(***************************************************************************)
(* The tasks of the two crews.                                             *)
(***************************************************************************)
ExtractLimit == 5000
AuditLimit == 6000

ExtractionTasks(tender_text) ==
    << [id |-> "extraction",
        description |->
            <<"Summarize the 5 most important technical requirements from this text: ">>
            \o Slice(tender_text, ExtractLimit),
        expected_output |-> "A bulleted list of 5 requirements."] >>

task_matching(tender_text, prof) ==
    [id |-> "audit",
     description |->
         <<"Compare these tender requirements: ">>
         \o Slice(tender_text, AuditLimit)
         \o <<" against our company profile: ">>
         \o prof
         \o <<". Find the 3 strongest 'selling points' we have for this client.">>,
     expected_output |-> "An internal analysis of why we are the right choice."]

task_final_proposal ==
    [id |-> "synthesis",
     description |->
         <<"Using the audit results, write a formal 4-section proposal: Executive Summary, Proposed Solution, Past Experience, and Call to Action.">>,
     expected_output |-> "A professional, markdown-formatted business proposal document."]

\* tasks=[task_final_proposal, task_matching]
ProposalTasksSwapped(tender_text, prof) ==
    <<task_final_proposal, task_matching(tender_text, prof)>>

ProposalTasks(tender_text, prof) ==
    <<task_matching(tender_text, prof), task_final_proposal>>

(***************************************************************************)
(* Crew.kickoff with the sequential process: a task's prompt is its        *)
(* description and expected output followed by the raw outputs of the      *)
(* tasks that finished before it.                                          *)
(***************************************************************************)
Outputs == {<<"x">>, <<"y", "z">>}

RECURSIVE Context(_)
Context(outs) ==
    IF outs = <<>> THEN <<>>
    ELSE IF Len(outs) = 1 THEN outs[1].raw
    ELSE outs[1].raw \o <<"\n\n----------\n\n">> \o Context(Tail(outs))

TaskPrompt(task, outs) ==
    task.description \o <<task.expected_output>>
    \o (IF Context(outs) = <<>> THEN <<>>
        ELSE <<"This is the context you're working with:">> \o Context(outs))

Committed(ts, outs) == {i \in 1..Len(ts) : \E j \in 1..Len(outs) : outs[j].id = ts[i].id}

\* every task started at once, as with asynchronous execution
NextToIssueParallel(ts, outs, flying) ==
    (1..Len(ts)) \ (flying \cup Committed(ts, outs))

\* the tasks whose remote call is issued now: the next one, once the one
\* before it has answered
NextToIssue(ts, outs, flying) ==
    IF flying = {} /\ Len(outs) < Len(ts) THEN {Len(outs) + 1} ELSE {}

RECURSIVE IdsOf(_, _)
IdsOf(ts, idx) ==
    IF idx = {} THEN <<>>
    ELSE LET i == CHOOSE k \in idx : \A m \in idx : k <= m
         IN  <<ts[i].id>> \o IdsOf(ts, idx \ {i})

Issue(s) ==
    LET idx == NextToIssue(s.tasks, s.task_outputs, DOMAIN s.inflight)
    IN  [s EXCEPT !.inflight = [i \in (DOMAIN s.inflight) \cup idx |->
                                   IF i \in DOMAIN s.inflight THEN s.inflight[i]
                                   ELSE TaskPrompt(s.tasks[i], s.task_outputs)],
                  !.calls = @ \o IdsOf(s.tasks, idx)]

StartCrew(s, crew, ts) ==
    Issue([s EXCEPT !.pc = crew, !.tasks = ts, !.task_outputs = <<>>,
                    !.inflight = <<>>])

(***************************************************************************)
(* The script (lines 53-154) as a function of the state it starts from.    *)
(***************************************************************************)
NoDisplay == [info |-> None, reqs |-> None, proposal |-> None, download |-> None]

NoError == [exc |-> "", stage |-> ""]

Cur ==
    [file_state |-> file_state, uploaded_file |-> uploaded_file,
     view_profile |-> view_profile, show_reqs |-> show_reqs,
     session_state |-> session_state, pc |-> pc, button |-> button,
     profile |-> profile, tasks |-> tasks, task_outputs |-> task_outputs,
     inflight |-> inflight, calls |-> calls, display |-> display,
     rendered |-> rendered, error |-> error, ingest_log |-> ingest_log]

\* the script reached its last line: a widget it did not render loses its value
EndRun(s) ==
    [s EXCEPT !.pc = "idle", !.button = FALSE, !.tasks = <<>>,
              !.task_outputs = <<>>, !.inflight = <<>>,
              !.show_reqs = @ /\ "show_reqs" \in s.rendered]

\* an exception nothing catches ends the run where it is raised
Raise(s, exc, stage) ==
    [s EXCEPT !.pc = "idle", !.button = FALSE, !.tasks = <<>>,
              !.task_outputs = <<>>, !.inflight = <<>>,
              !.error = [exc |-> exc, stage |-> stage]]

\* lines 103-143
Proposal(s) ==
    LET s1 == [s EXCEPT !.rendered = @ \cup {"button"}]
    IN  IF s.button
        THEN StartCrew(s1, "proposal",
                       ProposalTasks(s.session_state.tender_text, s.profile))
        ELSE EndRun(s1)

\* lines 99-101
ShowRequirements(s) ==
    Proposal(IF s.show_reqs
             THEN [s EXCEPT !.display.reqs = s.session_state.extracted_reqs]
             ELSE s)

\* lines 75-97
Requirements(s) ==
    LET s1 == [s EXCEPT !.rendered = @ \cup {"show_reqs"}]
    IN  IF s.show_reqs /\ NeedExtraction(s.session_state)
        THEN StartCrew(s1, "extract", ExtractionTasks(s.session_state.tender_text))
        ELSE ShowRequirements(s1)

\* lines 66-73
Upload(s) ==
    LET s1 == [s EXCEPT !.rendered = @ \cup {"uploader"}]
    IN  IF s.uploaded_file = NoFile THEN EndRun(s1)
        ELSE IF NeedIngest(s.session_state)
        THEN IF File(s.uploaded_file).parseable
             THEN Requirements(
                      [s1 EXCEPT !.session_state.tender_text =
                                     extract_text_from_pdf(File(s.uploaded_file)),
                                 !.ingest_log = Append(@, s.uploaded_file)])
             ELSE Raise(s1, "PdfReadError", "")
        ELSE Requirements(s1)

\* lines 53-63
Sidebar(s) ==
    LET lp == load_business_profile(s.file_state)
    IN  IF lp.exc /= "" THEN Raise(s, lp.exc, "")
        ELSE Upload([s EXCEPT !.profile = lp.value,
                              !.rendered = @ \cup {"view_profile"},
                              !.display.info =
                                  IF s.view_profile THEN lp.value ELSE None])

\* a run from the top: the page is drawn anew
RunScript(s) ==
    Sidebar([s EXCEPT !.display = NoDisplay, !.rendered = {},
                      !.error = NoError, !.calls = <<>>])

\* lines 97-99 and 143-154: kickoff returned the last task's output
KickoffReturned(s) ==
    LET final_result == s.task_outputs[Len(s.task_outputs)].raw
    IN  IF s.pc = "extract"
        THEN ShowRequirements(
                 [s EXCEPT !.session_state.extracted_reqs = final_result])
        ELSE EndRun([s EXCEPT !.display.proposal = final_result,
                              !.display.download = final_result])

\* the remote call of task i answers `out`
Respond(s, i, out) ==
    LET s1 == Issue([s EXCEPT
                       !.task_outputs = Append(@, [id |-> s.tasks[i].id, raw |-> out]),
                       !.inflight = [k \in (DOMAIN s.inflight) \ {i} |->
                                        s.inflight[k]]])
    IN  IF DOMAIN s1.inflight = {} THEN KickoffReturned(s1) ELSE s1

\* the failure caught and the crew carried on with an empty output
FailSwallowed(s, i) == Respond(s, i, <<>>)

\* the remote call of task i fails: the exception leaves kickoff and the script
Fail(s, i) == Raise(s, "LLMCallError", s.tasks[i].id)

(***************************************************************************)
(* Actions.                                                                *)
(***************************************************************************)
Is(s) ==
    /\ file_state = s.file_state
    /\ uploaded_file = s.uploaded_file
    /\ view_profile = s.view_profile
    /\ show_reqs = s.show_reqs
    /\ session_state = s.session_state
    /\ pc = s.pc
    /\ button = s.button
    /\ profile = s.profile
    /\ tasks = s.tasks
    /\ task_outputs = s.task_outputs
    /\ inflight = s.inflight
    /\ calls = s.calls
    /\ display = s.display
    /\ rendered = s.rendered
    /\ error = s.error
    /\ ingest_log = s.ingest_log

Becomes(s) ==
    /\ file_state' = s.file_state
    /\ uploaded_file' = s.uploaded_file
    /\ view_profile' = s.view_profile
    /\ show_reqs' = s.show_reqs
    /\ session_state' = s.session_state
    /\ pc' = s.pc
    /\ button' = s.button
    /\ profile' = s.profile
    /\ tasks' = s.tasks
    /\ task_outputs' = s.task_outputs
    /\ inflight' = s.inflight
    /\ calls' = s.calls
    /\ display' = s.display
    /\ rendered' = s.rendered
    /\ error' = s.error
    /\ ingest_log' = s.ingest_log
    /\ UNCHANGED <<ing_doc, ing_out>>

\* a new session: the script has run once, with nothing uploaded
NewSession(fs) ==
    RunScript([file_state |-> fs, uploaded_file |-> NoFile,
               view_profile |-> FALSE, show_reqs |-> FALSE,
               session_state |-> EmptySession, pc |-> "idle", button |-> FALSE,
               profile |-> None, tasks |-> <<>>, task_outputs |-> <<>>,
               inflight |-> <<>>, calls |-> <<>>, display |-> NoDisplay,
               rendered |-> {}, error |-> NoError, ingest_log |-> <<>>])

Init ==
    /\ \E fs \in FileStates : Is(NewSession(fs))
    /\ failed = ""
    /\ answers = <<>>
    /\ ing_doc = Document("d", <<>>)
    /\ ing_out = NotRun

UploadFile(d) ==
    /\ pc = "idle"
    /\ "uploader" \in rendered
    /\ d /= uploaded_file
    /\ Becomes(RunScript([Cur EXCEPT !.uploaded_file = d]))
    /\ failed' = ""
    /\ answers' = <<>>

RemoveFile ==
    /\ pc = "idle"
    /\ "uploader" \in rendered
    /\ uploaded_file /= NoFile
    /\ Becomes(RunScript([Cur EXCEPT !.uploaded_file = NoFile]))
    /\ failed' = ""
    /\ answers' = <<>>

ToggleViewProfile ==
    /\ pc = "idle"
    /\ "view_profile" \in rendered
    /\ Becomes(RunScript([Cur EXCEPT !.view_profile = ~@]))
    /\ failed' = ""
    /\ answers' = <<>>

ToggleShowReqs ==
    /\ pc = "idle"
    /\ "show_reqs" \in rendered
    /\ Becomes(RunScript([Cur EXCEPT !.show_reqs = ~@]))
    /\ failed' = ""
    /\ answers' = <<>>

PressButton ==
    /\ pc = "idle"
    /\ "button" \in rendered
    /\ Becomes(RunScript([Cur EXCEPT !.button = TRUE]))
    /\ failed' = ""
    /\ answers' = <<>>

LLMRespond(i, out) ==
    /\ pc /= "idle"
    /\ i \in DOMAIN inflight
    /\ Becomes(Respond(Cur, i, out))
    /\ failed' = failed
    /\ answers' = Append(answers, [id |-> tasks[i].id, raw |-> out])

LLMFail(i) ==
    /\ pc /= "idle"
    /\ i \in DOMAIN inflight
    /\ Becomes(Fail(Cur, i))
    /\ failed' = tasks[i].id
    /\ answers' = answers

Next ==
    \/ \E d \in UploadNames : UploadFile(d)
    \/ RemoveFile
    \/ ToggleViewProfile
    \/ ToggleShowReqs
    \/ PressButton
    \/ \E i \in 1..2, out \in Outputs : LLMRespond(i, out)
    \/ \E i \in 1..2 : LLMFail(i)

Spec == Init /\ [][Next]_vars

(***************************************************************************)
(* IngestSpec                                                              *)
(***************************************************************************)
IngestInit ==
    /\ Is(NewSession("absent"))
    /\ failed = ""
    /\ answers = <<>>
    /\ ing_doc \in AllDocs
    /\ ing_out = NotRun

IngestApply ==
    /\ ing_out = NotRun
    /\ ing_out' = extract_text_from_pdf(ing_doc)
    /\ UNCHANGED <<ing_doc, app_vars>>

IngestNext == IngestApply

IngestSpec == IngestInit /\ [][IngestNext]_vars

(***************************************************************************)
(* Helpers of the properties.                                              *)
(***************************************************************************)
PrefixOf(s, n) == [k \in 1..(IF Len(s) < n THEN Len(s) ELSE n) |-> s[k]]

IsSubstring(sub, s) ==
    \E k \in 0..(Len(s) - Len(sub)) : SubSeq(s, k + 1, k + Len(sub)) = sub

PositionOf(tok, s) == CHOOSE k \in 1..Len(s) : s[k] = tok /\ \A m \in 1..(k - 1) : s[m] /= tok

\* what a prompt holds between two literal pieces of its template
Between(prompt, head, foot) ==
    SubSeq(prompt, PositionOf(head, prompt) + 1, PositionOf(foot, prompt) - 1)

Flying(id) == {i \in DOMAIN inflight : tasks[i].id = id}

\* the source-text excerpt in the prompt of an extraction or audit call
ExtractionExcerpt(prompt) ==
    Between(prompt,
            "Summarize the 5 most important technical requirements from this text: ",
            "A bulleted list of 5 requirements.")

AuditExcerpt(prompt) ==
    Between(prompt, "Compare these tender requirements: ",
            " against our company profile: ")

RECURSIVE ConcatAll(_)
ConcatAll(ss) == IF ss = <<>> THEN <<>> ELSE Head(ss) \o ConcatAll(Tail(ss))

HasText(p) == p /= None /\ p /= <<>>

\* the answers the remote service gave to the tasks of the running crew
CrewAnswers ==
    SelectSeq(answers, LAMBDA a : \E k \in 1..Len(tasks) : tasks[k].id = a.id)

(***************************************************************************)
(* C1: when the remote call of a stage fails, the run ends there: the      *)
(* script is no longer inside a crew, no call is in flight, the failed     *)
(* stage is the last one that was called, nothing of the proposal (or of   *)
(* the requirements, for the extraction crew) is displayed or offered for  *)
(* download, and the run ended with that stage's error.                    *)
(***************************************************************************)
C1_FailureAbortsRun ==
    failed /= "" =>
        /\ pc = "idle"
        /\ DOMAIN inflight = {}
        /\ calls /= <<>> /\ calls[Len(calls)] = failed
        /\ display.proposal = None
        /\ display.download = None
        /\ (failed = "extraction" => display.reqs = None)
        /\ error = [exc |-> "LLMCallError", stage |-> failed]

C1_Witness ==
    /\ failed = "audit"
    /\ calls = <<"audit">>
    /\ error.stage = "audit"

(***************************************************************************)
(* C2: whatever the audit stage answered, the prompt of the synthesis      *)
(* stage's call contains that answer as a contiguous piece.                *)
(***************************************************************************)
C2_SynthesisPromptContainsAudit ==
    \A i \in Flying("synthesis") :
        \E j \in 1..Len(answers) :
            /\ answers[j].id = "audit"
            /\ IsSubstring(answers[j].raw, inflight[i])

C2_Witness ==
    /\ Flying("synthesis") /= {}
    /\ answers = <<[id |-> "audit", raw |-> <<"y", "z">>]>>

(***************************************************************************)
(* C4: a crew runs its tasks one at a time and in the declared order: at   *)
(* most one remote call is in flight; the task in flight is the last one   *)
(* called, every task before it has been answered and none after it; and   *)
(* its prompt is built from exactly those answers.                         *)
(***************************************************************************)
C4_StrictlySequential ==
    /\ Cardinality(DOMAIN inflight) <= 1
    /\ \A i \in DOMAIN inflight :
          /\ calls[Len(calls)] = tasks[i].id
          /\ Len(CrewAnswers) = i - 1
          /\ \A k \in 1..(i - 1) : CrewAnswers[k].id = tasks[k].id
          /\ task_outputs = CrewAnswers
          /\ inflight[i] = TaskPrompt(tasks[i], CrewAnswers)
    /\ display.proposal /= None => calls = <<"audit", "synthesis">>

C4_Witness ==
    /\ pc = "proposal"
    /\ DOMAIN inflight = {2}
    /\ Len(task_outputs) = 1

(***************************************************************************)
(* C5: a key of the session, once written, keeps its value in every later  *)
(* step, and while a crew runs its committed outputs are only added to.    *)
(***************************************************************************)
C5_Step ==
    /\ session_state.tender_text /= None
          => session_state'.tender_text = session_state.tender_text
    /\ session_state.extracted_reqs /= None
          => session_state'.extracted_reqs = session_state.extracted_reqs
    /\ (pc /= "idle" /\ pc' = pc)
          => /\ Len(task_outputs') >= Len(task_outputs)
             /\ SubSeq(task_outputs', 1, Len(task_outputs)) = task_outputs

C5_ContextAppendOnly == [][C5_Step]_vars

C5_Witness ==
    /\ session_state.tender_text /= None
    /\ session_state.extracted_reqs /= None
    /\ ingest_log /= <<>>
    /\ uploaded_file \notin {NoFile, ingest_log[1]}
    /\ pc = "proposal"
    /\ Len(task_outputs) = 1

(***************************************************************************)
(* C6: the source text in the prompt of an extraction call is the first    *)
(* 5000 characters of the text held for the document (all of it when it    *)
(* is shorter), in an audit call the first 6000, and the prompt of a       *)
(* synthesis call holds no character of the source text at all.            *)
(***************************************************************************)
C6_ExcerptIsBoundedPrefix ==
    /\ \A i \in Flying("extraction") :
          /\ ExtractionExcerpt(inflight[i]) = PrefixOf(session_state.tender_text, 5000)
          /\ Len(ExtractionExcerpt(inflight[i])) <= 5000
    /\ \A i \in Flying("audit") :
          /\ AuditExcerpt(inflight[i]) = PrefixOf(session_state.tender_text, 6000)
          /\ Len(AuditExcerpt(inflight[i])) <= 6000
    /\ \A i \in Flying("synthesis") :
          \A k \in 1..Len(inflight[i]) :
              \A m \in 1..Len(session_state.tender_text) :
                  inflight[i][k] /= session_state.tender_text[m]

C6_Witness ==
    /\ Flying("audit") /= {}
    /\ Len(session_state.tender_text) > 6000
    /\ Len(AuditExcerpt(inflight[1])) = 6000

(***************************************************************************)
(* C7: for a document that parses, extract_text_from_pdf returns the       *)
(* texts of the pages that have text, joined in page order; the empty      *)
(* string when no page has text (also when there is no page), and a        *)
(* non-empty text when some page has.                                      *)
(***************************************************************************)
C7_IngestJoinsTextPages ==
    ing_out /= NotRun =>
        /\ ing_out = ConcatAll(SelectSeq(ing_doc.pages, HasText))
        /\ (\A k \in 1..Len(ing_doc.pages) : ~HasText(ing_doc.pages[k]))
              => ing_out = <<>>
        /\ (\E k \in 1..Len(ing_doc.pages) : HasText(ing_doc.pages[k]))
              => ing_out /= <<>>

C7_Witness ==
    /\ ing_doc.pages = <<None, <<"b", "c">>, <<"a">>>>
    /\ ing_out = <<"b", "c", "a">>

(***************************************************************************)
(* C8: loading the profile never raises; when the file is absent, or       *)
(* cannot be opened or read, the profile is the default text.              *)
(***************************************************************************)
C8_LoadNeverRaises ==
    file_state /= "present" =>
        /\ error.exc \notin {"IsADirectoryError", "PermissionError", "UnicodeDecodeError"}
        /\ profile = DefaultProfile

(***************************************************************************)
(* C9: every uploaded document is ingested exactly once: after a run that  *)
(* ended normally with a parseable document in the uploader, that          *)
(* document's text has been built, once, and is the text held.             *)
(***************************************************************************)
C9_EachUploadIngestedOnce ==
    (pc = "idle" /\ error = NoError /\ uploaded_file /= NoFile
        /\ File(uploaded_file).parseable)
    => /\ Len(SelectSeq(ingest_log, LAMBDA d : d = uploaded_file)) = 1
       /\ session_state.tender_text = extract_text_from_pdf(File(uploaded_file))

(***************************************************************************)
(* C10: the text behind an extraction or audit prompt, and behind the      *)
(* requirements on display, is the text of the document now in the         *)
(* uploader.                                                               *)
(***************************************************************************)
C10_CacheIsOfCurrentDocument ==
    (Flying("extraction") /= {} \/ Flying("audit") /= {} \/ display.reqs /= None)
    => /\ File(uploaded_file).parseable
       /\ session_state.tender_text = extract_text_from_pdf(File(uploaded_file))
====
